---- MODULE Spec2Model ----
(***************************************************************************)
(* Redirect-and-correlate pipeline of the shortener: the Express server    *)
(* (src/server.js) with its two SQLite tables, and the boot script         *)
(* (src/public/js/tracking.js) running in each visitor's browser.          *)
(*                                                                         *)
(* Every sqlite3 statement is one atomic step of the database; its         *)
(* callback is a later step of the Node event loop.  A browser runs its    *)
(* script between two suspensions as one step.                             *)
(***************************************************************************)
EXTENDS Integers, Sequences, FiniteSets, TLC

VARIABLES
  links,         \* table links: row id = index, [short_code, target_url]
  fingerprints,  \* table fingerprints: row id = index (AUTOINCREMENT, no DELETE)
  gets,          \* GET /:code requests, in arrival order
  browser,       \* the visitor's browser of each GET request
  tracks,        \* POST /api/track requests, in arrival order
  creates,       \* POST /api/create requests, in arrival order
  page           \* one served page: its boot script, clock and listeners

vars == <<links, fingerprints, gets, browser, tracks, creates, page>>

(***************************************************************************)
(* Bounds of the model                                                     *)
(***************************************************************************)
\* HTTP requests the environment issues: GET /:code visits plus POSTs to
\* /api/track that do not come from a served boot script.
MaxRequests == 2

(***************************************************************************)
(* JSON values and JSON.stringify                                          *)
(***************************************************************************)
Undefined == [t |-> "undefined"]
JNull == [t |-> "null"]
JStr(s) == [t |-> "str", s |-> s]
JNum(n) == [t |-> "num", n |-> n]
JArr(a) == [t |-> "arr", items |-> a]
\* an object is the sequence of its <<key, value>> members, in insertion order
JObj(kv) == [t |-> "obj", kv |-> kv]

RECURSIVE Stringify(_), StringifyMembers(_, _), StringifyItems(_)

\* members whose value is undefined are omitted
StringifyMembers(kv, first) ==
  IF kv = <<>> THEN ""
  ELSE IF kv[1][2] = Undefined THEN StringifyMembers(Tail(kv), first)
  ELSE (IF first THEN "" ELSE ",") \o "\"" \o kv[1][1] \o "\":"
         \o Stringify(kv[1][2]) \o StringifyMembers(Tail(kv), FALSE)

\* an undefined array item is written as null
StringifyItems(a) ==
  IF a = <<>> THEN ""
  ELSE (IF a[1] = Undefined THEN "null" ELSE Stringify(a[1]))
         \o (IF Len(a) > 1 THEN "," ELSE "") \o StringifyItems(Tail(a))

\* JSON.stringify(v) for v other than undefined
Stringify(v) ==
  CASE v.t = "null" -> "null"
    [] v.t = "str"  -> "\"" \o v.s \o "\""
    [] v.t = "num"  -> ToString(v.n)
    [] v.t = "arr"  -> "[" \o StringifyItems(v.items) \o "]"
    [] v.t = "obj"  -> "{" \o StringifyMembers(v.kv, TRUE) \o "}"

RECURSIVE JsonRoundTrip(_), RoundTripMembers(_), RoundTripItems(_)

RoundTripMembers(kv) ==
  IF kv = <<>> THEN <<>>
  ELSE IF kv[1][2] = Undefined THEN RoundTripMembers(Tail(kv))
  ELSE << <<kv[1][1], JsonRoundTrip(kv[1][2])>> >> \o RoundTripMembers(Tail(kv))

RoundTripItems(a) ==
  IF a = <<>> THEN <<>>
  ELSE << IF a[1] = Undefined THEN JNull ELSE JsonRoundTrip(a[1]) >>
         \o RoundTripItems(Tail(a))

\* what express.json() parses out of a body written by JSON.stringify(v)
JsonRoundTrip(v) ==
  CASE v.t = "obj" -> JObj(RoundTripMembers(v.kv))
    [] v.t = "arr" -> JArr(RoundTripItems(v.items))
    [] OTHER -> v

\* the member of object o named k, undefined when it has none
Member(o, k) ==
  IF \E i \in DOMAIN o.kv : o.kv[i][1] = k
  THEN o.kv[CHOOSE i \in DOMAIN o.kv : o.kv[i][1] = k][2]
  ELSE Undefined

(***************************************************************************)
(* SQLite                                                                  *)
(***************************************************************************)
\* SQL NULL; no JSON text and no hex digest is this string
NULL == "<NULL>"

\* a bound parameter: node-sqlite3 leaves an undefined parameter unbound,
\* which SQLite reads as NULL
Bind(v) == IF v = Undefined THEN NULL ELSE Stringify(v)

\* crypto.createHash('sha256').update(s).digest('hex'): a function of s,
\* taken to be collision-free
createHash(s) == "sha256:" \o s

\* SELECT id, target_url FROM links WHERE short_code = ?  (0 when no row)
SelectLink(code) ==
  IF \E i \in DOMAIN links : links[i].short_code = code
  THEN CHOOSE i \in DOMAIN links : links[i].short_code = code
  ELSE 0

\* a row of fingerprints as INSERT writes it: the columns it does not name
\* take their default, NULL, and created_at the time of the INSERT
NewFingerprint(link_id, ip, user_agent, server_data) ==
  [link_id |-> link_id, hash |-> NULL, ip |-> ip, user_agent |-> user_agent,
   server_data |-> server_data, client_data |-> NULL, behavior_data |-> NULL,
   nuclear_data |-> NULL, created_at |-> "CURRENT_TIMESTAMP"]

\* hash TEXT UNIQUE: the UPDATE of row id would give it the hash another row
\* holds (NULLs never conflict)
UniqueViolation(id, hash) ==
  /\ id \in DOMAIN fingerprints
  /\ hash # NULL
  /\ \E j \in DOMAIN fingerprints : j # id /\ fingerprints[j].hash = hash

\* the UPDATE without its WHERE clause: every row is overwritten
UpdateEveryFingerprint(id, client_data, behavior_data, nuclear_data, hash) ==
  [j \in DOMAIN fingerprints |->
     [fingerprints[j] EXCEPT !.client_data = client_data,
                             !.behavior_data = behavior_data,
                             !.nuclear_data = nuclear_data,
                             !.hash = hash]]

\* the UPDATE without "hash = ?" in its SET list
UpdateWithoutHash(id, client_data, behavior_data, nuclear_data, hash) ==
  [j \in DOMAIN fingerprints |->
     IF j = id
     THEN [fingerprints[j] EXCEPT !.client_data = client_data,
                                  !.behavior_data = behavior_data,
                                  !.nuclear_data = nuclear_data]
     ELSE fingerprints[j]]

\* the UPDATE with "created_at = CURRENT_TIMESTAMP" in its SET list: the
\* row is stamped with the time of the correlation
UpdateStampsRow(id, client_data, behavior_data, nuclear_data, hash) ==
  [j \in DOMAIN fingerprints |->
     IF j = id
     THEN [fingerprints[j] EXCEPT !.client_data = client_data,
                                  !.behavior_data = behavior_data,
                                  !.nuclear_data = nuclear_data,
                                  !.hash = hash,
                                  !.created_at = "CURRENT_TIMESTAMP at UPDATE"]
     ELSE fingerprints[j]]

\* the UPDATE split in two statements, the first one "SET client_data = ?
\* ... WHERE id = ? AND client_data IS NULL"
UpdateClientDataOnce(id, client_data, behavior_data, nuclear_data, hash) ==
  [j \in DOMAIN fingerprints |->
     IF j = id
     THEN [fingerprints[j] EXCEPT
             !.client_data = IF @ = NULL THEN client_data ELSE @,
             !.behavior_data = behavior_data,
             !.nuclear_data = nuclear_data,
             !.hash = hash]
     ELSE fingerprints[j]]

\* UPDATE fingerprints SET client_data, behavior_data, nuclear_data, hash
\* WHERE id = ?: the table after the statement (no row matches an unknown id)
UpdateFingerprints(id, client_data, behavior_data, nuclear_data, hash) ==
  [j \in DOMAIN fingerprints |->
     IF j = id
     THEN [fingerprints[j] EXCEPT !.client_data = client_data,
                                  !.behavior_data = behavior_data,
                                  !.nuclear_data = nuclear_data,
                                  !.hash = hash]
     ELSE fingerprints[j]]

(***************************************************************************)
(* The requests of the environment                                         *)
(***************************************************************************)
\* the Link Store as created through POST /api/create before the visits
InitialLinks == << [short_code |-> "abc123", target_url |-> "https://example.com"] >>

\* the codes visitors ask for: a stored one, and one nobody created
Codes == {"abc123", "nope"}

\* req.ip, req.headers['user-agent'] and req.hostname of a visit
ReqIp == "203.0.113.7"
ReqUserAgent == "Mozilla/5.0"
ReqHostname == "sho.rt"

\* the visits and the POSTs there can be
Visits == 1..MaxRequests
Posts == 1..MaxRequests

\* requests issued so far
ExternalTracks == {t \in DOMAIN tracks : tracks[t].from = 0}
Requests == Len(gets) + Cardinality(ExternalTracks)

NoLink == [id |-> 0, target_url |-> NULL]
NoResponse == [status |-> 0, Location |-> NULL, TRACKING_ID |-> 0,
               TARGET_URL |-> NULL, refresh |-> NULL]

(***************************************************************************)
(* GET /:code                                                              *)
(***************************************************************************)
\* the serverData object of a visit (no TTL on the socket handle, no
\* cf-ipcountry header, lookup answered within the millisecond)
serverData ==
  JObj(<< <<"ip", JStr(ReqIp)>>,
          <<"headers", JObj(<< <<"user-agent", JStr(ReqUserAgent)>> >>)>>,
          <<"dns", JStr(ReqHostname)>>,
          <<"tcp", JObj(<< <<"ttl", Undefined>>, <<"timing", JNum(0)>> >>)>>,
          <<"geo", JNull>> >>)

\* the lookup callback without "if (err || !link) return": a miss goes on
\* to the INSERT
GetLookupWithoutMissCheck(code, dbErr) ==
  /\ Requests < MaxRequests
  /\ LET i == SelectLink(code)
         link == IF i = 0 \/ dbErr THEN NoLink
                 ELSE [id |-> i, target_url |-> links[i].target_url]
     IN /\ gets' = Append(gets,
                     [code |-> code, link |-> link, pc |-> "insert",
                      err |-> NULL, lastID |-> 0, res |-> NoResponse])
        /\ browser' = Append(browser,
                     [pc |-> "waiting", location |-> NULL, delivery |-> 0])
  /\ UNCHANGED <<links, fingerprints, tracks, creates, page>>

\* the request arrives, db.get runs and its callback answers 404 or queues
\* the INSERT
GetLookup(code, dbErr) ==
  /\ Requests < MaxRequests
  /\ LET i == SelectLink(code)
         link == IF i = 0 THEN NoLink
                 ELSE [id |-> i, target_url |-> links[i].target_url]
         miss == dbErr \/ i = 0
     IN /\ gets' = Append(gets,
                     [code |-> code, link |-> IF miss THEN NoLink ELSE link,
                      pc |-> IF miss THEN "done" ELSE "insert",
                      err |-> NULL, lastID |-> 0,
                      res |-> IF miss THEN [NoResponse EXCEPT !.status = 404]
                              ELSE NoResponse])
        /\ browser' = Append(browser,
                     [pc |-> IF miss THEN "notFound" ELSE "waiting",
                      location |-> NULL, delivery |-> 0])
  /\ UNCHANGED <<links, fingerprints, tracks, creates, page>>

\* the INSERT callback surfacing the storage error as a 500
GetInsertSurfacesError(v, dbErr) ==
  /\ v \in DOMAIN gets
  /\ gets[v].pc = "insert"
  /\ IF dbErr
     THEN /\ gets' = [gets EXCEPT ![v].pc = "done", ![v].err = "SQLITE_IOERR",
                 ![v].res = [NoResponse EXCEPT !.status = 500]]
          /\ browser' = [browser EXCEPT ![v].pc = "notFound"]
          /\ UNCHANGED fingerprints
     ELSE /\ fingerprints' = Append(fingerprints,
               NewFingerprint(gets[v].link.id, ReqIp, ReqUserAgent,
                              Stringify(serverData)))
          /\ gets' = [gets EXCEPT ![v].pc = "done",
                 ![v].lastID = Len(fingerprints) + 1,
                 ![v].res = [NoResponse EXCEPT !.status = 200,
                                               !.TRACKING_ID = Len(fingerprints) + 1,
                                               !.TARGET_URL = gets[v].link.target_url,
                                               !.refresh = gets[v].link.target_url]]
          /\ browser' = [browser EXCEPT ![v].pc = "page"]
  /\ UNCHANGED <<links, tracks, creates, page>>

\* the INSERT callback without "if (err) return": the page is sent also when
\* no row was written, carrying the lastID of the connection
GetInsertIgnoresError(v, dbErr) ==
  /\ v \in DOMAIN gets
  /\ gets[v].pc = "insert"
  /\ IF dbErr
     THEN /\ gets' = [gets EXCEPT ![v].pc = "done", ![v].err = "SQLITE_IOERR",
                 ![v].lastID = Len(fingerprints),
                 ![v].res = [NoResponse EXCEPT !.status = 200,
                                               !.TRACKING_ID = Len(fingerprints),
                                               !.TARGET_URL = gets[v].link.target_url,
                                               !.refresh = gets[v].link.target_url]]
          /\ browser' = [browser EXCEPT ![v].pc = "page"]
          /\ UNCHANGED fingerprints
     ELSE /\ fingerprints' = Append(fingerprints,
               NewFingerprint(gets[v].link.id, ReqIp, ReqUserAgent,
                              Stringify(serverData)))
          /\ gets' = [gets EXCEPT ![v].pc = "done",
                 ![v].lastID = Len(fingerprints) + 1,
                 ![v].res = [NoResponse EXCEPT !.status = 200,
                                               !.TRACKING_ID = Len(fingerprints) + 1,
                                               !.TARGET_URL = gets[v].link.target_url,
                                               !.refresh = gets[v].link.target_url]]
          /\ browser' = [browser EXCEPT ![v].pc = "page"]
  /\ UNCHANGED <<links, tracks, creates, page>>

\* the database runs the INSERT and its callback answers: a redirect when
\* the INSERT failed, the bootstrap page carrying this.lastID otherwise.  The
\* callback reads nothing but its own request, so it is taken with the
\* statement; the browser receives the answer in a later step.
GetInsert(v, dbErr) ==
  /\ v \in DOMAIN gets
  /\ gets[v].pc = "insert"
  /\ IF dbErr
     THEN /\ gets' = [gets EXCEPT ![v].pc = "done", ![v].err = "SQLITE_IOERR",
                 ![v].res = [NoResponse EXCEPT !.status = 302,
                                               !.Location = gets[v].link.target_url]]
          /\ browser' = [browser EXCEPT ![v].pc = "redirected"]
          /\ UNCHANGED fingerprints
     ELSE /\ fingerprints' = Append(fingerprints,
               NewFingerprint(gets[v].link.id, ReqIp, ReqUserAgent,
                              Stringify(serverData)))
          /\ gets' = [gets EXCEPT ![v].pc = "done",
                 ![v].lastID = Len(fingerprints) + 1,
                 ![v].res = [NoResponse EXCEPT !.status = 200,
                                               !.TRACKING_ID = Len(fingerprints) + 1,
                                               !.TARGET_URL = gets[v].link.target_url,
                                               !.refresh = gets[v].link.target_url]]
          /\ browser' = [browser EXCEPT ![v].pc = "page"]
  /\ UNCHANGED <<links, tracks, creates, page>>

(***************************************************************************)
(* POST /api/track                                                         *)
(***************************************************************************)
\* the handler up to db.run: the body's members, the composite hash and the
\* parameters of the UPDATE
TrackRequest(id, clientData, behavior, from) ==
  LET combined == JObj(<< <<"clientData", clientData>>, <<"behavior", behavior>> >>)
  IN [id |-> id, clientData |-> clientData, behavior |-> behavior,
      hash |-> createHash(Stringify(combined)),
      params |-> [client_data |-> Bind(clientData),
                  behavior_data |-> Bind(behavior),
                  nuclear_data |-> Stringify(combined)],
      pc |-> "update", err |-> NULL, status |-> 0, from |-> from]

\* the database runs the UPDATE and its callback settles the promise: 200,
\* or 500 from the catch when the statement failed (storage error, or the
\* UNIQUE constraint on hash).  The browser receives the answer in a later step.
\* the statement applied although it reports an error
TrackUpdateWritesOnError(t, dbErr) ==
  /\ t \in DOMAIN tracks
  /\ tracks[t].pc = "update"
  /\ LET r == tracks[t]
         failed == dbErr \/ UniqueViolation(r.id, r.hash)
     IN /\ fingerprints' = UpdateFingerprints(r.id, r.params.client_data,
                 r.params.behavior_data, r.params.nuclear_data, r.hash)
        /\ tracks' = [tracks EXCEPT ![t].pc = "done",
                 ![t].status = IF failed THEN 500 ELSE 200,
                 ![t].err = IF dbErr THEN "SQLITE_IOERR"
                            ELSE IF failed THEN "SQLITE_CONSTRAINT" ELSE @]
  /\ UNCHANGED <<links, gets, browser, creates, page>>

TrackUpdate(t, dbErr) ==
  /\ t \in DOMAIN tracks
  /\ tracks[t].pc = "update"
  /\ LET r == tracks[t]
     IN IF dbErr \/ UniqueViolation(r.id, r.hash)
        THEN /\ tracks' = [tracks EXCEPT ![t].pc = "done", ![t].status = 500,
                    ![t].err = IF dbErr THEN "SQLITE_IOERR" ELSE "SQLITE_CONSTRAINT"]
             /\ UNCHANGED fingerprints
        ELSE /\ fingerprints' = UpdateFingerprints(r.id, r.params.client_data,
                    r.params.behavior_data, r.params.nuclear_data, r.hash)
             /\ tracks' = [tracks EXCEPT ![t].pc = "done", ![t].status = 200]
  /\ UNCHANGED <<links, gets, browser, creates, page>>

\* a POST /api/track that no served boot script sent: any id, any body
PostBodies ==
  { [clientData |-> Undefined, behavior |-> Undefined],
    [clientData |-> JObj(<< <<"basic", JObj(<<>>)>> >>), behavior |-> JObj(<<>>)] }

TrackIds == 1..MaxRequests

ExternalPost(id, body) ==
  /\ Requests < MaxRequests
  /\ tracks' = Append(tracks, TrackRequest(id, body.clientData, body.behavior, 0))
  /\ UNCHANGED <<links, fingerprints, gets, browser, creates, page>>

(***************************************************************************)
(* The boot script, public/js/tracking.js                                  *)
(***************************************************************************)
getBasicData ==
  JObj(<< <<"userAgent", JStr(ReqUserAgent)>>, <<"deviceMemory", Undefined>> >>)

\* sensors is null unless a sensor delivered a reading
getHardwareData(sensors) ==
  JObj(<< <<"gpu", JNull>>, <<"battery", JNull>>, <<"sensors", sensors>> >>)

getSensorData ==
  JObj(<< <<"accelerometer", JObj(<< <<"x", JNum(0)>> >>)>> >>)

getGraphicsData ==
  JObj(<< <<"canvas", JNull>>, <<"fonts", JArr(<<>>)>> >>)

\* the listeners are registered, and no input event has been handled, when
\* the arrays are serialized; no touch support
getBehaviorData ==
  JObj(<< <<"mouse", JArr(<<>>)>>, <<"scroll", JArr(<<>>)>>,
          <<"keyboard", JArr(<<>>)>>, <<"touch", JNull>> >>)

collectAllData(sensors) ==
  JObj(<< <<"basic", getBasicData>>, <<"hardware", getHardwareData(sensors)>>,
          <<"graphics", getGraphicsData>>, <<"behavior", getBehaviorData>> >>)

\* fetch('/api/track', ...): the body is serialized, sent, and parsed by
\* express.json(); the handler starts on it
Deliver(v, collectedData) ==
  LET body == JsonRoundTrip(
        JObj(<< <<"id", JNum(gets[v].res.TRACKING_ID)>>,
                <<"clientData",
                  JObj(<< <<"basic", Member(collectedData, "basic")>>,
                          <<"hardware", Member(collectedData, "hardware")>>,
                          <<"graphics", Member(collectedData, "graphics")>> >>)>>,
                <<"behavior", Member(collectedData, "behavior")>>,
                <<"nuclearData", collectedData>> >>))
  IN /\ tracks' = Append(tracks,
           TrackRequest(Member(body, "id").n, Member(body, "clientData"),
                        Member(body, "behavior"), v))
     /\ browser' = [browser EXCEPT ![v].pc = "awaitFetch",
                                   ![v].delivery = Len(tracks) + 1]

\* the browser follows the 302
FollowRedirect(v) ==
  /\ v \in DOMAIN browser
  /\ browser[v].pc = "redirected"
  /\ browser' = [browser EXCEPT ![v].pc = "navigated",
                                ![v].location = gets[v].res.Location]
  /\ UNCHANGED <<links, fingerprints, gets, tracks, creates, page>>

\* scripting is disabled: the <noscript> meta refresh
NoScriptRefresh(v) ==
  /\ v \in DOMAIN browser
  /\ browser[v].pc = "page"
  /\ browser' = [browser EXCEPT ![v].pc = "navigated",
                                ![v].location = gets[v].res.refresh]
  /\ UNCHANGED <<links, fingerprints, gets, tracks, creates, page>>

\* the script runs up to its first suspension on the outside world: a probe
\* throws (caught by the main try), or getSensorData waits for a reading, or
\* the data is collected and the POST is issued
ScriptBoot(v, outcome) ==
  /\ v \in DOMAIN browser
  /\ browser[v].pc = "page"
  /\ CASE outcome = "throw" ->
            /\ browser' = [browser EXCEPT ![v].pc = "finally"]
            /\ UNCHANGED tracks
       [] outcome = "sensor" ->
            /\ browser' = [browser EXCEPT ![v].pc = "sensorWait"]
            /\ UNCHANGED tracks
       [] outcome = "collected" ->
            Deliver(v, collectAllData(JNull))
  /\ UNCHANGED <<links, fingerprints, gets, creates, page>>

\* the sensor fires 'reading': the collection goes on and the POST is issued
SensorReading(v) ==
  /\ v \in DOMAIN browser
  /\ browser[v].pc = "sensorWait"
  /\ Deliver(v, collectAllData(getSensorData))
  /\ UNCHANGED <<links, fingerprints, gets, creates, page>>

\* the response of the POST arrives, whatever its status: await fetch returns
FetchSettle(v) ==
  /\ v \in DOMAIN browser
  /\ browser[v].pc = "awaitFetch"
  /\ tracks[browser[v].delivery].pc = "done"
  /\ browser' = [browser EXCEPT ![v].pc = "finally"]
  /\ UNCHANGED <<links, fingerprints, gets, tracks, creates, page>>

\* the navigation as the last statement of the try instead of a finally: a
\* rejected fetch skips it
FetchNetworkErrorSkipsNavigation(v) ==
  /\ v \in DOMAIN browser
  /\ browser[v].pc = "awaitFetch"
  /\ browser' = [browser EXCEPT ![v].pc = "caught"]
  /\ UNCHANGED <<links, fingerprints, gets, tracks, creates, page>>

\* the connection fails: await fetch throws, the catch logs
FetchNetworkError(v) ==
  /\ v \in DOMAIN browser
  /\ browser[v].pc = "awaitFetch"
  /\ browser' = [browser EXCEPT ![v].pc = "finally"]
  /\ UNCHANGED <<links, fingerprints, gets, tracks, creates, page>>

\* the finally block
Navigate(v) ==
  /\ v \in DOMAIN browser
  /\ browser[v].pc = "finally"
  /\ browser' = [browser EXCEPT ![v].pc = "navigated",
                                ![v].location = gets[v].res.TARGET_URL]
  /\ UNCHANGED <<links, fingerprints, gets, tracks, creates, page>>

(***************************************************************************)
(* POST /api/create                                                        *)
(***************************************************************************)
\* POST /api/create requests the environment issues
MaxCreates == 2

\* a short code is the sequence of its characters
UpperCase == <<"A", "B", "C", "D", "E", "F", "G", "H", "I", "J", "K", "L", "M",
               "N", "O", "P", "Q", "R", "S", "T", "U", "V", "W", "X", "Y", "Z">>
LowerCase == <<"a", "b", "c", "d", "e", "f", "g", "h", "i", "j", "k", "l", "m",
               "n", "o", "p", "q", "r", "s", "t", "u", "v", "w", "x", "y", "z">>
Digits == {"0", "1", "2", "3", "4", "5", "6", "7", "8", "9"}

ToLower(ch) ==
  IF \E i \in DOMAIN UpperCase : UpperCase[i] = ch
  THEN LowerCase[CHOOSE i \in DOMAIN UpperCase : UpperCase[i] = ch]
  ELSE ch

LowerCode(code) == [i \in DOMAIN code |-> ToLower(code[i])]

\* /^[a-z0-9_-]{3,20}$/i.test(customCode)
ValidFormat(code) ==
  /\ Len(code) >= 3
  /\ Len(code) <= 20
  /\ \A i \in DOMAIN code :
       ToLower(code[i]) \in
         {LowerCase[k] : k \in DOMAIN LowerCase} \cup Digits \cup {"_", "-"}

\* crypto.randomBytes(4).toString('hex'): eight hexadecimal digits
GeneratedCodes == { <<"0", "a", "1", "b", "2", "c", "3", "d">>,
                    <<"d", "e", "a", "d", "b", "e", "e", "f">> }

\* the customCode of a request body: none, two that differ in letter case
\* only, one too short, one with a character outside the class, one too long
CustomCodes == { <<>>, <<"a", "b", "c">>, <<"A", "B", "C">>, <<"a", "b">>,
                 <<"a", "b", "!">>, [i \in 1..21 |-> "x"] }

\* the url of a request body; "" for a body without one
Urls == {"", "https://a.example", "https://b.example"}

\* SELECT short_code FROM links WHERE target_url = ?: the row, 0 for none
SelectByTarget(url) ==
  IF \E i \in DOMAIN links : links[i].target_url = url
  THEN CHOOSE i \in DOMAIN links :
         /\ links[i].target_url = url
         /\ \A j \in DOMAIN links : links[j].target_url = url => i <= j
  ELSE 0

\* SELECT 1 FROM links WHERE short_code = ? and the UNIQUE index of the
\* column: TEXT compares byte by byte (collation BINARY)
CodeStored(code) == \E i \in DOMAIN links : links[i].short_code = code

CreateFrame == UNCHANGED <<fingerprints, gets, browser, tracks, page>>

Answer(c, status, code) ==
  [creates EXCEPT ![c].pc = "done", ![c].status = status, ![c].code = code]

\* the handler up to its first await
CreateRequest(url, customCode) ==
  /\ Len(creates) < MaxCreates
  /\ creates' = Append(creates,
       [url |-> url, customCode |-> customCode, code |-> <<>>,
        pc |-> IF url = "" THEN "done" ELSE "selectUrl",
        status |-> IF url = "" THEN 400 ELSE 0])
  /\ UNCHANGED links
  /\ CreateFrame

\* the lookup by target URL has answered (an error is read as no row); the
\* code to store is chosen
CreateSelectUrl(c, dbErr, generated) ==
  /\ c \in DOMAIN creates
  /\ creates[c].pc = "selectUrl"
  /\ LET r == creates[c]
         existing == IF dbErr THEN 0 ELSE SelectByTarget(r.url)
         code == IF r.customCode # <<>> THEN r.customCode ELSE generated
     IN creates' =
          IF existing # 0 THEN Answer(c, 200, links[existing].short_code)
          ELSE [creates EXCEPT ![c].code = code,
                  ![c].pc = IF r.customCode # <<>> THEN "selectCode"
                            ELSE "insert"]
  /\ UNCHANGED links
  /\ CreateFrame

\* the lookup by custom code has answered (an error is read as no row), then
\* the format test
CreateSelectCode(c, dbErr) ==
  /\ c \in DOMAIN creates
  /\ creates[c].pc = "selectCode"
  /\ LET r == creates[c]
         exists == ~dbErr /\ CodeStored(r.customCode)
     IN creates' =
          IF exists \/ ~ValidFormat(r.customCode) THEN Answer(c, 400, <<>>)
          ELSE [creates EXCEPT ![c].pc = "insert"]
  /\ UNCHANGED links
  /\ CreateFrame

\* INSERT INTO links (short_code, target_url) and its callback
CreateInsert(c, dbErr) ==
  /\ c \in DOMAIN creates
  /\ creates[c].pc = "insert"
  /\ LET r == creates[c]
     IN IF dbErr \/ CodeStored(r.code)
        THEN /\ creates' = Answer(c, 500, <<>>)
             /\ UNCHANGED links
        ELSE /\ links' = Append(links,
                   [short_code |-> r.code, target_url |-> r.url])
             /\ creates' = Answer(c, 200, r.code)
  /\ CreateFrame

(***************************************************************************)
(* One served page in detail: the boot script, the clock, the listeners    *)
(***************************************************************************)
\* captureMouseMovements: "if (movements.length >= 50)"
SampleCeiling == 50

\* the delay of the three setTimeout calls of the behavioural probes
WindowMs == 1000

\* clock steps the environment takes while the page is open, each of half a
\* window
MaxTicks == 3

\* input events of each kind but mousemove the visitor produces on one page
MaxEvents == 1

TickMs == WindowMs \div 2

\* what the browser offers the script: getBasicData throwing stands for a
\* browser without Intl or screen; asyncApis for getBattery, storage.estimate
\* or enumerateDevices being there to wait for; sensor for 'Accelerometer' or
\* 'Gyroscope' in window; touch for 'ontouchstart' in window
Envs == [basicThrows : BOOLEAN, asyncApis : BOOLEAN, sensor : BOOLEAN,
         touch : BOOLEAN]

Groups == [basic |-> "notStarted", hardware |-> "notStarted",
           graphics |-> "notStarted", behavior |-> "notStarted"]

\* the page as the parser hands it to the script of <head>: <body> is not
\* parsed yet, nothing has run
LoadedPage(env) ==
  [pc |-> "boot", env |-> env, bodyParsed |-> FALSE, now |-> 0,
   startTime |-> 0, group |-> Groups, promise |-> "pending",
   payload |-> <<>>, posts |-> 0,
   listener |-> [mouse |-> "none", scroll |-> "none", keyboard |-> "none",
                 touch |-> "none"],
   samples |-> [mouse |-> 0, scroll |-> 0, keyboard |-> 0, touch |-> 0],
   timer |-> [scroll |-> "none", keyboard |-> "none", touch |-> "none"],
   deadline |-> 0]

\* catch (error) { console.error } finally { window.location.href = ... }
navigate(p) == [p EXCEPT !.pc = "unloaded"]

\* collectAllData's promise rejects: the await in the main function throws,
\* nothing is assigned to collectedData, catch and finally run
reject(p, g) ==
  navigate([p EXCEPT !.group[g] = "threw", !.promise = "rejected"])

\* getBehaviorData: the four capture functions register their listeners, the
\* last three a timer each; captureTouchEvents returns null without touch
getBehaviorDataAt(p) ==
  [p EXCEPT !.group.behavior = "value",
            !.listener = [mouse |-> "listening", scroll |-> "listening",
                          keyboard |-> "listening",
                          touch |-> IF p.env.touch THEN "listening" ELSE "none"],
            !.timer = [scroll |-> "pending", keyboard |-> "pending",
                       touch |-> IF p.env.touch THEN "pending" ELSE "none"],
            !.deadline = p.now + WindowMs]

\* the main function after "await collectAllData()": the meta member, then
\* fetch, whose body is serialized in the call: "sent" is the length each
\* sample list has at that moment
deliver(p) ==
  [p EXCEPT !.promise = "fulfilled",
            !.payload = << [basic |-> p.group.basic,
                            hardware |-> p.group.hardware,
                            graphics |-> p.group.graphics,
                            behavior |-> p.group.behavior,
                            meta |-> [collectionTime |-> p.now - p.startTime],
                            sent |-> p.samples] >>,
            !.posts = p.posts + 1,
            !.pc = "awaitFetch"]

\* collectAllData from "graphics: await getGraphicsData()" on, which runs
\* once getHardwareData has resolved: every probe of the graphics group but
\* getFontList and getCSSFeatures catches its errors, and getFontList calls
\* document.body.appendChild
afterHardware(p) ==
  LET h == [p EXCEPT !.group.hardware = "value", !.group.graphics = "pending"]
  IN IF ~h.bodyParsed THEN reject(h, "graphics")
     ELSE deliver(getBehaviorDataAt([h EXCEPT !.group.graphics = "value"]))

\* collectAllData with the behavior group started before the hardware group
\* is awaited
startHardwareAfterBehavior(p) ==
  LET h == [getBehaviorDataAt(p) EXCEPT !.group.basic = "value",
                                        !.group.hardware = "pending"]
  IN IF h.env.asyncApis THEN [h EXCEPT !.pc = "hwAsync"]
     ELSE IF h.env.sensor THEN [h EXCEPT !.pc = "hwSensor"]
     ELSE afterHardware(h)

\* getHardwareData up to its first wait for the browser
startHardware(p) ==
  LET h == [p EXCEPT !.group.basic = "value", !.group.hardware = "pending"]
  IN IF h.env.asyncApis THEN [h EXCEPT !.pc = "hwAsync"]
     ELSE IF h.env.sensor THEN [h EXCEPT !.pc = "hwSensor"]
     ELSE afterHardware(h)

PageFrame == UNCHANGED <<links, fingerprints, gets, browser, tracks, creates>>

\* the script of <head> runs: startTime, the call of collectAllData, and on
\* until the first wait
PageBoot ==
  /\ page.pc = "boot"
  /\ LET p == [page EXCEPT !.startTime = page.now, !.group.basic = "pending"]
     IN page' = IF p.env.basicThrows THEN reject(p, "basic")
                ELSE startHardware(p)
  /\ PageFrame

\* while the script waits for the browser the parser goes on to <body>
ParserFinishes ==
  /\ page.pc \in {"hwAsync", "hwSensor", "awaitFetch"}
  /\ ~page.bodyParsed
  /\ page' = [page EXCEPT !.bodyParsed = TRUE]
  /\ PageFrame

\* getBattery, storage.estimate and enumerateDevices have answered (a
\* rejection is caught and gives null): getSensorData starts
HardwareAsyncSettles ==
  /\ page.pc = "hwAsync"
  /\ page' = IF page.env.sensor THEN [page EXCEPT !.pc = "hwSensor"]
             ELSE afterHardware(page)
  /\ PageFrame

\* the sensor fires 'reading'
PageSensorReading ==
  /\ page.pc = "hwSensor"
  /\ page' = afterHardware(page)
  /\ PageFrame

\* a timer that is due runs before the clock moves on
TimerDue(p, k) == p.timer[k] = "pending" /\ p.now >= p.deadline

Tick ==
  /\ page.pc # "unloaded"
  /\ page.now < MaxTicks * TickMs
  /\ \A k \in {"scroll", "keyboard", "touch"} : ~TimerDue(page, k)
  /\ page' = [page EXCEPT !.now = page.now + TickMs]
  /\ PageFrame

\* the callback of setTimeout(..., 1000): removeEventListener
TimerFires(k) ==
  /\ page.pc # "unloaded"
  /\ TimerDue(page, k)
  /\ page' = [page EXCEPT !.timer[k] = "fired", !.listener[k] = "removed"]
  /\ PageFrame

\* the mousemove handler with ">" for ">="
mouseHandlerOffByOne(p) ==
  LET q == [p EXCEPT !.samples.mouse = p.samples.mouse + 1]
  IN IF q.samples.mouse > SampleCeiling
     THEN [q EXCEPT !.listener.mouse = "removed"] ELSE q

\* the mousemove handler: push, then removeEventListener at the ceiling
mouseHandler(p) ==
  LET q == [p EXCEPT !.samples.mouse = p.samples.mouse + 1]
  IN IF q.samples.mouse >= SampleCeiling
     THEN [q EXCEPT !.listener.mouse = "removed"] ELSE q

\* a mousemove event is dispatched to the document: it reaches the handler
\* while the handler is registered
MouseMove ==
  /\ page.pc # "unloaded"
  /\ page' = IF page.listener.mouse = "listening" THEN mouseHandler(page)
             ELSE page
  /\ PageFrame

\* a scroll, keydown or touchstart event is dispatched: the handler pushes
InputEvent(k) ==
  /\ page.pc # "unloaded"
  /\ page.listener[k] = "listening"
  /\ page.samples[k] < MaxEvents
  /\ page' = [page EXCEPT !.samples[k] = page.samples[k] + 1]
  /\ PageFrame

\* the fetch settles, fulfilled or rejected: finally
PageFetchSettles ==
  /\ page.pc = "awaitFetch"
  /\ page' = navigate(page)
  /\ PageFrame

(***************************************************************************)
(* Specification                                                           *)
(***************************************************************************)
Init ==
  /\ links = InitialLinks
  /\ fingerprints = <<>>
  /\ gets = <<>>
  /\ browser = <<>>
  /\ tracks = <<>>
  /\ creates = <<>>
  /\ page = <<>>

Next ==
  \/ \E code \in Codes, dbErr \in BOOLEAN : GetLookup(code, dbErr)
  \/ \E v \in DOMAIN gets, dbErr \in BOOLEAN : GetInsert(v, dbErr)
  \/ \E id \in TrackIds, body \in PostBodies : ExternalPost(id, body)
  \/ \E t \in DOMAIN tracks, dbErr \in BOOLEAN : TrackUpdate(t, dbErr)
  \/ \E v \in DOMAIN browser : FollowRedirect(v)
  \/ \E v \in DOMAIN browser : NoScriptRefresh(v)
  \/ \E v \in DOMAIN browser, outcome \in {"throw", "sensor", "collected"} :
       ScriptBoot(v, outcome)
  \/ \E v \in DOMAIN browser : SensorReading(v)
  \/ \E v \in DOMAIN browser : FetchSettle(v)
  \/ \E v \in DOMAIN browser : FetchNetworkError(v)
  \/ \E v \in DOMAIN browser : Navigate(v)

Spec == Init /\ [][Next]_vars

\* what the runtimes guarantee: SQLite finishes every statement it was given
\* and Node runs the callback; a browser that received an answer acts on it,
\* an answered POST settles its fetch, and a finally block that was reached
\* runs.  Nothing makes a visitor arrive, a sensor fire or a connection break.
BrowserStep(v) ==
  \/ FollowRedirect(v)
  \/ NoScriptRefresh(v)
  \/ \E outcome \in {"throw", "sensor", "collected"} : ScriptBoot(v, outcome)
  \/ FetchSettle(v)
  \/ Navigate(v)

Fairness ==
  /\ \A v \in Visits : WF_vars(\E dbErr \in BOOLEAN : GetInsert(v, dbErr))
  /\ \A t \in Posts : WF_vars(\E dbErr \in BOOLEAN : TrackUpdate(t, dbErr))
  /\ \A v \in Visits : WF_vars(BrowserStep(v))

FairSpec == Spec /\ Fairness

\* one page load followed through the boot script, for every browser of Envs
PageInit ==
  /\ links = InitialLinks
  /\ fingerprints = <<>>
  /\ gets = <<>>
  /\ browser = <<>>
  /\ tracks = <<>>
  /\ creates = <<>>
  /\ page \in {LoadedPage(env) : env \in Envs}

PageNext ==
  \/ PageBoot
  \/ ParserFinishes
  \/ HardwareAsyncSettles
  \/ PageSensorReading
  \/ Tick
  \/ \E k \in {"scroll", "keyboard", "touch"} : TimerFires(k)
  \/ MouseMove
  \/ \E k \in {"scroll", "keyboard", "touch"} : InputEvent(k)
  \/ PageFetchSettles

PageSpec == PageInit /\ [][PageNext]_vars

\* the Link Store filled through POST /api/create, from an empty database
CreateInit ==
  /\ links = <<>>
  /\ fingerprints = <<>>
  /\ gets = <<>>
  /\ browser = <<>>
  /\ tracks = <<>>
  /\ creates = <<>>
  /\ page = <<>>

CreateNext ==
  \/ \E url \in Urls, customCode \in CustomCodes :
       CreateRequest(url, customCode)
  \/ \E c \in DOMAIN creates, dbErr \in BOOLEAN, generated \in GeneratedCodes :
       CreateSelectUrl(c, dbErr, generated)
  \/ \E c \in DOMAIN creates, dbErr \in BOOLEAN : CreateSelectCode(c, dbErr)
  \/ \E c \in DOMAIN creates, dbErr \in BOOLEAN : CreateInsert(c, dbErr)

CreateSpec == CreateInit /\ [][CreateNext]_vars

(***************************************************************************)
(* Properties                                                              *)
(***************************************************************************)
\* the link the store holds for the code of visit v, at the lookup
Resolved(v) == v \in DOMAIN gets /\ gets[v].link.id # 0
StoredTarget(v) == links[gets[v].link.id].target_url
AtTarget(v) ==
  /\ Resolved(v)
  /\ browser[v].pc = "navigated"
  /\ browser[v].location = StoredTarget(v)

\* C1: every GET /{code} whose code the Link Store resolves is eventually
\* followed by the visitor's browser navigating to the stored target URL,
\* on every execution path.
C1_EventuallyNavigates ==
  \A v \in Visits : Resolved(v) ~> AtTarget(v)

\* C2: once the payload is collected and the delivery POST is issued, the
\* navigation step is enabled, whether or not the POST has settled.
C2_NavigationNotBlockedOnDelivery ==
  \A v \in DOMAIN browser :
    (browser[v].delivery # 0 /\ browser[v].pc # "navigated") => ENABLED Navigate(v)

\* C3: a correlate call whose id matches no CorrelationRecord is never
\* answered with success.
C3_UnknownIdNeverSucceeds ==
  \A t \in DOMAIN tracks :
    (tracks[t].pc = "done" /\ tracks[t].id \notin DOMAIN fingerprints)
      => tracks[t].status # 200

\* the step in which the database runs the UPDATE of call t
Updates(t) == tracks[t].pc = "update" /\ tracks'[t].pc = "done"

\* C4: a correlate call whose id matches no CorrelationRecord leaves the
\* record set unchanged: no record created, no field of a record modified.
C4_UnknownIdChangesNothing ==
  [][\A t \in DOMAIN tracks :
       (Updates(t) /\ tracks[t].id \notin DOMAIN fingerprints)
         => fingerprints' = fingerprints]_vars

C4_Witness ==
  \E t \in DOMAIN tracks :
    /\ tracks[t].pc = "done"
    /\ tracks[t].id \notin DOMAIN fingerprints
    /\ fingerprints # <<>>

\* the {clientData, behavior} tuple call t supplied, serialized
SuppliedTuple(t) ==
  Stringify(JObj(<< <<"clientData", tracks[t].clientData>>,
                    <<"behavior", tracks[t].behavior>> >>))

\* C5: after every successful correlate(id, clientData, behavior) call the
\* record with that id holds the supplied tuple as combinedPayload and the
\* digest of its serialized form as contentHash.
C5_SuccessStoresTupleAndHash ==
  [][\A t \in DOMAIN tracks :
       (Updates(t) /\ tracks'[t].status = 200)
         => /\ tracks[t].id \in DOMAIN fingerprints'
            /\ fingerprints'[tracks[t].id].nuclear_data = SuppliedTuple(t)
            /\ fingerprints'[tracks[t].id].hash = createHash(SuppliedTuple(t))]_vars

\* C6: in every reachable state every CorrelationRecord has a contentHash
\* if and only if it has a combinedPayload.
C6_HashIffCombined ==
  \A i \in DOMAIN fingerprints :
    (fingerprints[i].hash # NULL) <=> (fingerprints[i].nuclear_data # NULL)

\* a correlated record next to an uncorrelated one, after a failed call
C6_Witness ==
  /\ \E t \in DOMAIN tracks : tracks[t].status = 500
  /\ \E i \in DOMAIN fingerprints : fingerprints[i].hash # NULL
  /\ \E i \in DOMAIN fingerprints : fingerprints[i].hash = NULL

\* C7: a correlate call for an existing id that meets no storage error
\* succeeds and is persisted, also when another CorrelationRecord already
\* holds the same contentHash.
C7_HashNeverRejects ==
  [][\A t \in DOMAIN tracks :
       (/\ Updates(t)
        /\ tracks[t].id \in DOMAIN fingerprints
        /\ tracks'[t].err # "SQLITE_IOERR")
         => /\ tracks'[t].status = 200
            /\ fingerprints'[tracks[t].id].hash = tracks[t].hash]_vars

\* C8: when the INSERT of a visit to a resolvable code fails, the answer is
\* a redirect to the stored target URL, never an error response.
C8_InsertFailureRedirects ==
  \A v \in DOMAIN gets :
    (Resolved(v) /\ gets[v].err # NULL)
      => /\ gets[v].res.status = 302
         /\ gets[v].res.Location = StoredTarget(v)

C8_Witness ==
  \E v \in DOMAIN gets : Resolved(v) /\ gets[v].err # NULL /\ AtTarget(v)

\* C9: a GET /{code} for a code the Link Store does not resolve is answered
\* 404, its handler ends there, and the record set is left unchanged.
C9_MissIsNotFound ==
  [][\A code \in Codes :
       (/\ SelectLink(code) = 0
        /\ Len(gets') = Len(gets) + 1
        /\ gets'[Len(gets')].code = code)
         => /\ gets'[Len(gets')].res.status = 404
            /\ gets'[Len(gets')].pc = "done"
            /\ fingerprints' = fingerprints]_vars

C9_Witness ==
  \E v \in DOMAIN gets :
    /\ SelectLink(gets[v].code) = 0
    /\ gets[v].res.status = 404
    /\ fingerprints # <<>>

\* the client-side columns of a record
ClientColumns(r) == <<r.client_data, r.behavior_data, r.nuclear_data, r.hash>>
Uncorrelated(r) == ClientColumns(r) = <<NULL, NULL, NULL, NULL>>

\* the record of a served page exists and holds the server-observed snapshot
C10_ServedRecordExists ==
  \A v \in DOMAIN gets :
    gets[v].res.status = 200
      => LET T == gets[v].res.TRACKING_ID
         IN /\ T \in DOMAIN fingerprints
            /\ fingerprints[T].link_id = gets[v].link.id
            /\ fingerprints[T].ip = ReqIp
            /\ fingerprints[T].user_agent = ReqUserAgent
            /\ fingerprints[T].server_data = Stringify(serverData)
            /\ \/ Uncorrelated(fingerprints[T])
               \/ \E t \in DOMAIN tracks : tracks[t].id = T /\ tracks[t].status = 200

\* a record is created uncorrelated, and its client-side columns change
\* only in the UPDATE of a correlate call for its id that succeeds
C10_StaysUntilCorrelated ==
  /\ \A T \in DOMAIN fingerprints' \ DOMAIN fingerprints : Uncorrelated(fingerprints'[T])
  /\ \A T \in DOMAIN fingerprints :
       /\ T \in DOMAIN fingerprints'
       /\ ClientColumns(fingerprints'[T]) # ClientColumns(fingerprints[T])
            => \E t \in DOMAIN tracks :
                 Updates(t) /\ tracks[t].id = T /\ tracks'[t].status = 200

\* C10: whenever a bootstrap page carrying tracking identifier T has been
\* served, a CorrelationRecord with id T exists, created with the server
\* snapshot and no client-side field, and it keeps that shape until a
\* correlate call for T succeeds.
C10_RecordBeforePage ==
  [] C10_ServedRecordExists /\ [][C10_StaysUntilCorrelated]_vars

\* the page was served, the visitor left through the no-script fallback,
\* and the record is still as created
C10_Witness ==
  \E v \in DOMAIN gets :
    /\ gets[v].res.status = 200
    /\ browser[v].pc = "navigated"
    /\ browser[v].delivery = 0
    /\ Uncorrelated(fingerprints[gets[v].res.TRACKING_ID])

\* the delivery POSTs the script served to visit v has issued
Deliveries(v) == {t \in DOMAIN tracks : tracks[t].from = v}

\* the delivery of visit v has failed: no answer has arrived, or one that is
\* not 200
DeliveryFailed(v) ==
  /\ browser[v].delivery # 0
  /\ tracks[browser[v].delivery].status # 200

C16_OnePostPerPage ==
  \A v \in DOMAIN browser : Cardinality(Deliveries(v)) <= 1

C16_FinallyNavigates ==
  \A v \in DOMAIN browser :
    browser[v].delivery # 0
    => /\ browser[v].pc = "finally" => ENABLED Navigate(v)
       /\ browser[v].pc = "navigated" => browser[v].location = StoredTarget(v)

C16_FailedFetchGoesToFinally ==
  \A v \in DOMAIN browser :
    (browser[v].pc = "awaitFetch" /\ browser'[v].pc # "awaitFetch"
       /\ DeliveryFailed(v))
    => (browser'[v].pc = "finally" /\ tracks' = tracks)

\* C16: a delivery failure (network error or non-2xx answer) triggers no
\* retry and does not touch navigation: a page load issues at most one
\* delivery POST, the step that ends a failed fetch issues no request and
\* lands in the finally block, from where the navigation to the target URL
\* is enabled and is where the browser ends up.
C16_DeliveryFailureIgnored ==
  /\ [](C16_OnePostPerPage /\ C16_FinallyNavigates)
  /\ [][C16_FailedFetchGoesToFinally]_vars

\* a visitor at the target after a delivery that got a 500, and one whose
\* connection failed while the request was still being served
C16_Witness ==
  \E v \in DOMAIN browser, w \in DOMAIN browser :
    /\ AtTarget(v) /\ browser[v].delivery # 0
    /\ tracks[browser[v].delivery].status = 500
    /\ AtTarget(w) /\ browser[w].delivery # 0
    /\ tracks[browser[w].delivery].pc = "update"

\* the four columns call t binds in its UPDATE
CallColumns(t) ==
  <<tracks[t].params.client_data, tracks[t].params.behavior_data,
    tracks[t].params.nuclear_data, tracks[t].hash>>

C17_ColumnsOfOneCall ==
  \A i \in DOMAIN fingerprints :
    ~Uncorrelated(fingerprints[i])
    => \E t \in DOMAIN tracks :
         /\ tracks[t].id = i
         /\ tracks[t].status = 200
         /\ ClientColumns(fingerprints[i]) = CallColumns(t)

C17_LastWriteWins ==
  \A t \in DOMAIN tracks :
    (Updates(t) /\ tracks'[t].status = 200
       /\ tracks[t].id \in DOMAIN fingerprints)
    => ClientColumns(fingerprints'[tracks[t].id]) = CallColumns(t)

\* C17: correlate calls for the same tracking identifier that overlap in
\* time do not mix their fields: in every state the clientPayload,
\* behaviorPayload, combinedPayload and contentHash of a record all come
\* from one and the same successful call, and each successful call leaves
\* its own four values in the record (last write wins).
C17_NoMixedFields ==
  [] C17_ColumnsOfOneCall /\ [][C17_LastWriteWins]_vars

\* two calls with different payloads for one id were in flight together and
\* both succeeded
C17_Witness ==
  \E s \in DOMAIN tracks, t \in DOMAIN tracks :
    /\ s < t
    /\ tracks[s].id = tracks[t].id
    /\ tracks[s].id \in DOMAIN fingerprints
    /\ tracks[s].hash # tracks[t].hash
    /\ tracks[s].status = 200 /\ tracks[t].status = 200
    /\ ClientColumns(fingerprints[tracks[s].id]) = CallColumns(s)

\* C18 as claimed: a CorrelationRecord is updated by at most one
\* correlation call: once a record has been correlated, no later step
\* changes its client fields.
C18_UpdatedAtMostOnce ==
  [][\A i \in DOMAIN fingerprints :
       ~Uncorrelated(fingerprints[i])
       => ClientColumns(fingerprints'[i]) = ClientColumns(fingerprints[i])]_vars

\* C18 amended: the client fields of a correlated record change only by a
\* later successful correlate call for that id, which replaces them with the
\* four values of that call; a call that fails leaves them as they were.
C18_RewrittenOnlyBySuccessfulCall ==
  [][\A i \in DOMAIN fingerprints :
       ( /\ ~Uncorrelated(fingerprints[i])
         /\ ClientColumns(fingerprints'[i]) # ClientColumns(fingerprints[i]) )
       => \E t \in DOMAIN tracks :
            /\ Updates(t)
            /\ tracks[t].id = i
            /\ tracks'[t].status = 200
            /\ ClientColumns(fingerprints'[i]) = CallColumns(t)]_vars

\* a record correlated twice holds the values of the later call, and a
\* call for the same id has failed
C18_Witness ==
  \E s \in DOMAIN tracks, t \in DOMAIN tracks :
    /\ s < t
    /\ tracks[s].id = tracks[t].id
    /\ tracks[s].id \in DOMAIN fingerprints
    /\ tracks[s].hash # tracks[t].hash
    /\ tracks[s].status = 200 /\ tracks[t].status = 200
    /\ ClientColumns(fingerprints[tracks[t].id]) = CallColumns(t)

\* the columns the INSERT of the visit wrote
ServerColumns(r) ==
  <<r.link_id, r.ip, r.user_agent, r.server_data, r.created_at>>

\* C21: a successful correlate(id, ...) call changes only clientPayload,
\* behaviorPayload, combinedPayload and contentHash of the record with that
\* id: its linkId, requestorIp, userAgent, serverObservedData and createdAt,
\* every other record and the set of record ids stay as they were.
C21_SuccessfulCallFrame ==
  [][\A t \in DOMAIN tracks :
       (Updates(t) /\ tracks'[t].status = 200)
       => /\ DOMAIN fingerprints' = DOMAIN fingerprints
          /\ \A j \in DOMAIN fingerprints :
               /\ ServerColumns(fingerprints'[j]) = ServerColumns(fingerprints[j])
               /\ j # tracks[t].id => fingerprints'[j] = fingerprints[j]]_vars

\* a successful call has rewritten one of two records; the other one is
\* still as its visit created it
C21_Witness ==
  \E t \in DOMAIN tracks, j \in DOMAIN fingerprints :
    /\ tracks[t].status = 200
    /\ tracks[t].id \in DOMAIN fingerprints
    /\ j # tracks[t].id
    /\ ClientColumns(fingerprints[tracks[t].id]) = CallColumns(t)
    /\ fingerprints[tracks[t].id].nuclear_data # NULL
    /\ Uncorrelated(fingerprints[j])

(***************************************************************************)
(* Properties of the Link Store (CreateSpec)                               *)
(***************************************************************************)
\* C19: after any sequence of create calls, overlapping or not, no two
\* stored links have short codes that are equal when letter case is
\* ignored, and every stored code is 3 to 20 characters of alphanumerics,
\* hyphen or underscore.
C19_CodesUniqueIgnoringCase ==
  /\ \A i \in DOMAIN links, j \in DOMAIN links :
       i # j => LowerCode(links[i].short_code) # LowerCode(links[j].short_code)
  /\ \A i \in DOMAIN links : ValidFormat(links[i].short_code)

(***************************************************************************)
(* Properties of one page load (PageSpec)                                  *)
(***************************************************************************)
\* C11: collect() never rejects and always settles fulfilled with a payload,
\* whatever the probes do (value, absent, thrown error, an asynchronous read
\* whose event never fires): the collector's promise is never rejected, and
\* a page that is left has received a payload.
C11_CollectNeverRejects ==
  /\ page.promise # "rejected"
  /\ page.pc = "unloaded" => page.payload # <<>>

GroupNames == {"basic", "hardware", "graphics", "behavior"}

\* C12: when one or more probe groups fail while others succeed, the
\* collector returns a payload in which each failed group is null and each
\* succeeded group keeps its value.
C12_PartialFailureKeepsOthers ==
  ( /\ \E g \in GroupNames : page.group[g] = "threw"
    /\ \E g \in GroupNames : page.group[g] = "value" )
  => /\ page.payload # <<>>
     /\ \A g \in GroupNames :
          /\ page.group[g] = "threw" => page.payload[1][g] = "null"
          /\ page.group[g] = "value" => page.payload[1][g] = "value"

\* C13: the probe groups are awaited concurrently: while the hardware group
\* has not resolved, the graphics and behavior groups have been started
\* already.
C13_GroupsStartTogether ==
  page.group.hardware = "pending"
  => /\ page.group.graphics # "notStarted"
     /\ page.group.behavior # "notStarted"

\* C14: on every path on which the collection ends, also the one where
\* probe groups fail, the collector returns a payload whose meta member
\* holds a collection duration >= 0.
C14_DurationOnEveryPath ==
  page.promise # "pending"
  => /\ page.payload # <<>>
     /\ page.payload[1].meta.collectionTime >= 0

Probes == {"mouse", "scroll", "keyboard", "touch"}

\* C15: every behavioural probe has deregistered its listener once its
\* 1000 ms window has elapsed, however few events occurred.
C15_WindowRetiresEveryListener ==
  (page.pc = "awaitFetch" /\ page.now > page.deadline)
  => \A k \in Probes : page.listener[k] # "listening"

C20_AtMostCeiling ==
  /\ page.samples.mouse <= SampleCeiling
  /\ page.samples.mouse = SampleCeiling => page.listener.mouse = "removed"

C20_RemovedAddsNothing ==
  page.listener.mouse = "removed" => page'.samples.mouse = page.samples.mouse

\* C20: the pointer-movement probe never holds more than 50 samples: the
\* listener is deregistered when the 50th sample is recorded, and once it is
\* deregistered no step, whatever events are dispatched, adds a sample.
C20_MouseCeiling ==
  [] C20_AtMostCeiling /\ [][C20_RemovedAddsNothing]_vars

\* the 50th sample has been recorded on a page that is still open
C20_Witness ==
  /\ page.pc = "awaitFetch"
  /\ page.samples.mouse = SampleCeiling
  /\ page.listener.mouse = "removed"

C22_SentListsEmpty ==
  page.payload # <<>>
  => /\ page.payload[1].sent.mouse = 0
     /\ page.payload[1].sent.scroll = 0
     /\ page.payload[1].sent.keyboard = 0

C22_ListenersAfterGroups ==
  \A k \in Probes :
    page.listener[k] # "none"
    => (page.group.hardware = "value" /\ page.group.graphics = "value")

\* C22: in every delivery the boot script makes, the mouse, scroll and
\* keyboard sample lists of the delivered behavior sub-document are empty:
\* no listener is registered before the hardware and graphics groups have
\* resolved, and the body is serialized before an input event reaches a
\* handler.
C22_DeliveredBehaviorEmpty ==
  C22_SentListsEmpty /\ C22_ListenersAfterGroups

\* the page is still open after the delivery and the visitor has moved the
\* mouse, scrolled and typed: the lists have grown after they were sent
C22_Witness ==
  /\ page.pc = "awaitFetch"
  /\ page.payload # <<>>
  /\ page.samples.mouse > 0
  /\ page.samples.scroll > 0
  /\ page.samples.keyboard > 0

====
